---- MODULE Spec2Model ----
(***************************************************************************)
(* Model of the MedFuse demo scripts.                                      *)
(*                                                                         *)
(*   src/DentalCareTeam.py      DentalCareTeam.run_dental_care_workflow    *)
(*                              and the helpers it awaits                  *)
(*   src/PatientCenteredCare.py PatientCenteredCare.create_care_plan       *)
(*                                                                         *)
(* Python values are encoded as follows.  A dict is a function with a      *)
(* string domain (a record); an absent key is a key outside the DOMAIN.    *)
(* A list is a sequence.  None, True and False are the records            *)
(* [py |-> "None"], [py |-> "True"], [py |-> "False"]; other scalars are   *)
(* strings ("6 months").                                                   *)
(*                                                                         *)
(* The agent framework (TroupeDirector, TaskExecutor, Task) is not part of *)
(* the repository.  It is modelled as an environment: a task handed to     *)
(* assign_task is in flight until its worker completes it or fails it, and *)
(* whether "await assign_task" resumes at hand-over or only at completion  *)
(* is a property of the framework the source does not fix; both are        *)
(* explored (assign_awaits_completion).                                    *)
(***************************************************************************)
EXTENDS Naturals, Sequences, FiniteSets, TLC

VARIABLES
    patient_data,     \* argument of run_dental_care_workflow
    assign_awaits_completion, \* framework: assign_task resumes only at completion
    director,         \* self.director: the agents registered with it
    pc,               \* position of the coroutine run_dental_care_workflow / main
    tasks,            \* the Task objects created so far, in creation order
    exam_task,        \* local exam_task        (index into tasks, 0 = unbound)
    exam_results,     \* local exam_results
    treatment_plan,   \* local treatment_plan
    hygiene_task,     \* local hygiene_task
    coordination_task,\* local coordination_task
    specialist_tasks, \* local specialist_tasks (sequence of indices)
    care_task,        \* local care_task
    ret,              \* what the call gives its caller
    stdout,           \* lines printed
    care_prefs,       \* PatientCenteredCare: patient_preferences
    care_pc,          \* PatientCenteredCare: position of the __main__ block
    care_outcome      \* PatientCenteredCare: outcome of create_care_plan

dental_vars == <<patient_data, assign_awaits_completion, director, pc, tasks,
                 exam_task, exam_results, treatment_plan, hygiene_task,
                 coordination_task, specialist_tasks, care_task, ret, stdout>>
care_vars == <<care_prefs, care_pc, care_outcome>>
vars == <<dental_vars, care_vars>>

-----------------------------------------------------------------------------
(* Bounds of the model *)

\* longest referral_needs list an examination result carries
MaxReferrals == 2

-----------------------------------------------------------------------------
(* Python values *)

NoneVal == [py |-> "None"]
TrueVal == [py |-> "True"]
FalseVal == [py |-> "False"]

\* dict.get(key, default)
Get(d, k, default) == IF k \in DOMAIN d THEN d[k] ELSE default

\* truth value of a scalar or None, as "if x:" takes it
Truthy(v) == v \notin {NoneVal, FalseVal}

Range(s) == {s[i] : i \in DOMAIN s}

SeqsUpTo(S, n) == UNION {[1..k -> S] : k \in 0..n}

-----------------------------------------------------------------------------
(* DentalCareTeam.__init__ *)

Team ==
    [general_dentist |->
        [name |-> "General Dentist",
         expertise |-> {"general_dentistry", "diagnosis", "treatment_planning"}],
     dental_hygienist |->
        [name |-> "Dental Hygienist",
         expertise |-> {"cleaning", "preventive_care", "patient_education"}],
     treatment_coordinator |->
        [name |-> "Treatment Coordinator",
         expertise |-> {"treatment_planning", "scheduling", "insurance_coordination"}],
     dental_specialist |->
        [name |-> "Dental Specialist",
         expertise |-> {"endodontics", "orthodontics", "oral_surgery"}],
     patient_care_coordinator |->
        [name |-> "Patient Care Coordinator",
         expertise |-> {"patient_communication", "care_planning", "follow_up"}]]

\* for role, member in self.team.items(): self.director.register_agent(member)
RegisterTeam == {Team[role].name : role \in DOMAIN Team}

-----------------------------------------------------------------------------
(* The Task each helper builds and hands to director.assign_task.  A task  *)
(* is "assigned" (in flight) from the call of assign_task on.              *)

NewTask(name, required_expertise, parameters, executor) ==
    [name |-> name,
     required_expertise |-> required_expertise,
     parameters |-> parameters,
     executor |-> executor,
     status |-> "assigned",
     results |-> NoneVal,
     error |-> NoneVal]

initial_examination(pd) ==
    NewTask("Initial Examination",
            {"general_dentistry", "diagnosis"},
            [patient_data |-> pd, examination_type |-> "comprehensive"],
            "general_dentist")

schedule_hygiene_care(patient_id, care_type) ==
    NewTask("Dental Hygiene",
            {"cleaning", "preventive_care"},
            [patient_id |-> patient_id, care_type |-> care_type],
            "dental_hygienist")

\* variant: the coordination task asks for a capability its worker lacks
coordinate_treatment_WrongExpertise(plan) ==
    NewTask("Treatment Coordination",
            {"treatment_planning", "insurance_coordination", "patient_communication"},
            plan,
            "treatment_coordinator")

coordinate_treatment(plan) ==
    NewTask("Treatment Coordination",
            {"treatment_planning", "insurance_coordination"},
            plan,
            "treatment_coordinator")

\* variant: the referral is wrapped instead of being passed as the parameters
specialist_consultation_Wrapped(case_details) ==
    NewTask("Specialist Consultation",
            {"endodontics", "orthodontics", "oral_surgery"},
            [case_details |-> case_details],
            "dental_specialist")

specialist_consultation(case_details) ==
    NewTask("Specialist Consultation",
            {"endodontics", "orthodontics", "oral_surgery"},
            case_details,
            "dental_specialist")

manage_patient_care(patient_info) ==
    NewTask("Patient Care Management",
            {"patient_communication", "care_planning"},
            patient_info,
            "patient_care_coordinator")

-----------------------------------------------------------------------------
(* DentalCareTeam.create_treatment_plan *)

\* variant: the plan asks for an immediate cleaning
create_treatment_plan_ImmediateCleaning(examination_results) ==
    [preventive_care |->
        [cleaning_frequency |-> "6 months",
         x_rays |-> "yearly",
         fluoride |-> "as needed",
         immediate_cleaning |-> TrueVal],
     restorative_care |-> Get(examination_results, "restorative_needs", <<>>),
     specialist_referrals |-> Get(examination_results, "referral_needs", <<>>),
     estimated_timeline |-> "12 months",
     priority_procedures |-> Get(examination_results, "priority_treatments", <<>>)]

create_treatment_plan(examination_results) ==
    [preventive_care |->
        [cleaning_frequency |-> "6 months",
         x_rays |-> "yearly",
         fluoride |-> "as needed"],
     restorative_care |-> Get(examination_results, "restorative_needs", <<>>),
     specialist_referrals |-> Get(examination_results, "referral_needs", <<>>),
     estimated_timeline |-> "12 months",
     priority_procedures |-> Get(examination_results, "priority_treatments", <<>>)]

\* variant: the test is inverted
NeedsHygiene_Inverted(plan) ==
    ~Truthy(Get(plan.preventive_care, "immediate_cleaning", NoneVal))

\* if treatment_plan["preventive_care"].get("immediate_cleaning"):
NeedsHygiene(plan) ==
    Truthy(Get(plan.preventive_care, "immediate_cleaning", NoneVal))

-----------------------------------------------------------------------------
(* Inputs and the framework's answers *)

Patients == {[id |-> "P12345"], [id |-> "P1"]}

Referrals == {[specialist |-> "ortho"], [specialist |-> "endo"]}

\* a dict from optional keys: opt[k] is empty when key k is absent, else {value}
OptDict(opt) ==
    [k \in {x \in DOMAIN opt : opt[x] # {}} |-> CHOOSE v \in opt[k] : TRUE]

\* what exam_task.complete() may give back: a result mapping with any of its
\* three keys absent, or None
ExamResultVals ==
    {OptDict([restorative_needs |-> rs, referral_needs |-> rf, priority_treatments |-> pt]) :
        rs \in {{}, {<<"filling">>}},
        rf \in {{}} \cup {{s} : s \in SeqsUpTo(Referrals, MaxReferrals)},
        pt \in {{<<"crown">>}}}
    \cup {OptDict([restorative_needs |-> {}, referral_needs |-> {}, priority_treatments |-> {}])}
    \cup {NoneVal}

\* what a worker may attach to any other task as task.results
TaskResultVals == {[status |-> "completed"], [status |-> "follow_up"]}

\* the exception the framework raises for a failed task, a subclass of Exception
FrameworkErrors == {"TaskError"}

\* classes "except Exception" catches among those raised in the model
ExceptionSubclasses == FrameworkErrors \cup {"AttributeError", "KeyError", "TypeError"}

ResultValsOf(t) ==
    IF t.name = "Initial Examination" THEN ExamResultVals ELSE TaskResultVals

-----------------------------------------------------------------------------
(* run_dental_care_workflow: control flow *)

CallPcs == {"start", "hygiene", "coord", "spec", "care"}
AwaitPcs == {"exam_assign", "hygiene_assign", "coord_assign", "spec_assign", "care_assign"}

\* the await a call of a helper suspends in
AwaitOf(p) ==
    CASE p = "start" -> "exam_assign"
      [] p = "hygiene" -> "hygiene_assign"
      [] p = "coord" -> "coord_assign"
      [] p = "spec" -> "spec_assign"
      [] p = "care" -> "care_assign"

\* the task the helper called at p builds
TaskAt(p) ==
    CASE p = "start" -> initial_examination(patient_data)
      [] p = "hygiene" ->
            schedule_hygiene_care(patient_data["id"], "comprehensive_cleaning")
      [] p = "coord" -> coordinate_treatment(treatment_plan)
      [] p = "spec" ->
            specialist_consultation(
                treatment_plan.specialist_referrals[Len(specialist_tasks) + 1])
      [] p = "care" -> manage_patient_care(patient_data)

\* for referral in treatment_plan["specialist_referrals"]: is there a next one
\* once n consultations have been set up
MoreReferrals(plan, n) == n < Len(plan.specialist_referrals)

\* variant: the plan is created without awaiting exam_task.complete()
AfterAssign_NoComplete(p, plan, n) ==
    CASE p = "exam_assign" -> "plan"
      [] p = "hygiene_assign" -> "coord"
      [] p \in {"coord_assign", "spec_assign"} ->
            IF MoreReferrals(plan, n) THEN "spec" ELSE "care"
      [] p = "care_assign" -> "gather"

\* where the driver goes when the helper awaited at p has returned, n being
\* the number of specialist tasks set up by then
AfterAssign(p, plan, n) ==
    CASE p = "exam_assign" -> "exam_complete"
      [] p = "hygiene_assign" -> "coord"
      [] p \in {"coord_assign", "spec_assign"} ->
            IF MoreReferrals(plan, n) THEN "spec" ELSE "care"
      [] p = "care_assign" -> "gather"

\* variant: assign_task is started but not awaited
AssignResumes_NotAwaited(t, awaits) == TRUE

\* await self.director.assign_task(task=..., executor=...): when it resumes
AssignResumes(t, awaits) ==
    /\ t.status # "failed"
    /\ awaits => t.status = "completed"

\* tasks = [coordination_task, care_task] + specialist_tasks
GatherList == <<coordination_task, care_task>> \o specialist_tasks

\* variant: the join returns at the first completion
GatherDone_FirstCompleted(ts) == \E i \in Range(ts) : tasks[i].status = "completed"

\* variant: the join collects exceptions as results (return_exceptions=True)
GatherDone_ReturnExceptions(ts) ==
    \A i \in Range(ts) : tasks[i].status \in {"completed", "failed"}

\* await asyncio.gather(*tasks) returns once every awaitable is done
GatherDone(ts) == \A i \in Range(ts) : tasks[i].status = "completed"

\* ... and raises as soon as one of them raises
GatherFails(ts) == \E i \in Range(ts) : tasks[i].status = "failed"

\* variant: the handler names only the built-in errors
Catches_BuiltinOnly(e) == e.type \in {"AttributeError", "KeyError", "TypeError"}

\* except Exception as e:
Catches(e) == e.type \in ExceptionSubclasses

\* the value of the return statement at the end of the try block
WorkflowResult ==
    [examination |-> exam_results,
     treatment_plan |-> treatment_plan,
     coordination_status |-> tasks[coordination_task].results,
     specialist_consultations |->
        [i \in 1..Len(specialist_tasks) |-> tasks[specialist_tasks[i]].results],
     patient_care_status |-> tasks[care_task].results]

ErrorLine(e) == [text |-> "Error in dental care workflow", detail |-> e.msg]

\* an exception e raised inside the try block: printed and None returned when
\* the except clause catches it, else it reaches the caller
Raise(e) ==
    /\ pc' = "returned"
    /\ IF Catches(e)
       THEN /\ stdout' = Append(stdout, ErrorLine(e))
            /\ ret' = [kind |-> "None"]
       ELSE /\ stdout' = stdout
            /\ ret' = [kind |-> "raised", error |-> e]

-----------------------------------------------------------------------------
(* Initial state: the team is constructed, main is about to call the       *)
(* workflow.                                                               *)

CareIdle ==
    /\ care_prefs = NoneVal
    /\ care_pc = "off"
    /\ care_outcome = NoneVal

DentalInit ==
    /\ patient_data \in Patients
    /\ assign_awaits_completion \in BOOLEAN
    /\ director = [agents |-> RegisterTeam]
    /\ pc = "start"
    /\ tasks = <<>>
    /\ exam_task = 0
    /\ exam_results = NoneVal
    /\ treatment_plan = NoneVal
    /\ hygiene_task = 0
    /\ coordination_task = 0
    /\ specialist_tasks = <<>>
    /\ care_task = 0
    /\ ret = [kind |-> "pending"]
    /\ stdout = <<>>

Init == DentalInit /\ CareIdle

-----------------------------------------------------------------------------
(* The framework's workers *)

\* the worker completes task i and attaches its results
WorkerComplete(i) ==
    /\ i \in DOMAIN tasks
    /\ tasks[i].status = "assigned"
    /\ \E r \in ResultValsOf(tasks[i]) :
          tasks' = [tasks EXCEPT ![i].status = "completed", ![i].results = r]
    /\ UNCHANGED <<patient_data, assign_awaits_completion, director, pc, exam_task,
                   exam_results, treatment_plan, hygiene_task, coordination_task,
                   specialist_tasks, care_task, ret, stdout, care_vars>>

\* task i fails: the framework will raise where the task is awaited
WorkerFail(i) ==
    /\ i \in DOMAIN tasks
    /\ tasks[i].status = "assigned"
    /\ \E ty \in FrameworkErrors :
          tasks' = [tasks EXCEPT ![i].status = "failed",
                                 ![i].error = [type |-> ty, msg |-> tasks[i].name]]
    /\ UNCHANGED <<patient_data, assign_awaits_completion, director, pc, exam_task,
                   exam_results, treatment_plan, hygiene_task, coordination_task,
                   specialist_tasks, care_task, ret, stdout, care_vars>>

-----------------------------------------------------------------------------
(* run_dental_care_workflow: steps *)

\* a helper builds its Task and calls director.assign_task
Dispatch ==
    /\ pc \in CallPcs
    /\ tasks' = Append(tasks, TaskAt(pc))
    /\ pc' = AwaitOf(pc)
    /\ UNCHANGED <<patient_data, assign_awaits_completion, director, exam_task,
                   exam_results, treatment_plan, hygiene_task, coordination_task,
                   specialist_tasks, care_task, ret, stdout, care_vars>>

\* assign_task resumes, the helper returns its task, the driver binds it
AssignReturn ==
    /\ pc \in AwaitPcs
    /\ AssignResumes(tasks[Len(tasks)], assign_awaits_completion)
    /\ exam_task' = IF pc = "exam_assign" THEN Len(tasks) ELSE exam_task
    /\ hygiene_task' = IF pc = "hygiene_assign" THEN Len(tasks) ELSE hygiene_task
    /\ coordination_task' = IF pc = "coord_assign" THEN Len(tasks) ELSE coordination_task
    /\ specialist_tasks' = IF pc = "spec_assign" THEN Append(specialist_tasks, Len(tasks))
                           ELSE specialist_tasks
    /\ care_task' = IF pc = "care_assign" THEN Len(tasks) ELSE care_task
    /\ pc' = AfterAssign(pc, treatment_plan, Len(specialist_tasks'))
    /\ UNCHANGED <<patient_data, assign_awaits_completion, director, tasks,
                   exam_results, treatment_plan, ret, stdout, care_vars>>

\* assign_task raises
AssignRaise ==
    /\ pc \in AwaitPcs
    /\ tasks[Len(tasks)].status = "failed"
    /\ Raise(tasks[Len(tasks)].error)
    /\ UNCHANGED <<patient_data, assign_awaits_completion, director, tasks, exam_task,
                   exam_results, treatment_plan, hygiene_task, coordination_task,
                   specialist_tasks, care_task, care_vars>>

\* exam_results = await exam_task.complete()
CompleteReturn ==
    /\ pc = "exam_complete"
    /\ tasks[exam_task].status = "completed"
    /\ exam_results' = tasks[exam_task].results
    /\ pc' = "plan"
    /\ UNCHANGED <<patient_data, assign_awaits_completion, director, tasks, exam_task,
                   treatment_plan, hygiene_task, coordination_task,
                   specialist_tasks, care_task, ret, stdout, care_vars>>

CompleteRaise ==
    /\ pc = "exam_complete"
    /\ tasks[exam_task].status = "failed"
    /\ Raise(tasks[exam_task].error)
    /\ UNCHANGED <<patient_data, assign_awaits_completion, director, tasks, exam_task,
                   exam_results, treatment_plan, hygiene_task, coordination_task,
                   specialist_tasks, care_task, care_vars>>

\* treatment_plan = await self.create_treatment_plan(exam_results);
\* None has no attribute get
CreatePlan ==
    /\ pc = "plan"
    /\ IF exam_results = NoneVal
       THEN /\ Raise([type |-> "AttributeError", msg |-> "get"])
            /\ UNCHANGED treatment_plan
       ELSE /\ treatment_plan' = create_treatment_plan(exam_results)
            /\ pc' = "hygiene_check"
            /\ UNCHANGED <<ret, stdout>>
    /\ UNCHANGED <<patient_data, assign_awaits_completion, director, tasks, exam_task,
                   exam_results, hygiene_task, coordination_task,
                   specialist_tasks, care_task, care_vars>>

\* if treatment_plan["preventive_care"].get("immediate_cleaning"):
CheckHygiene ==
    /\ pc = "hygiene_check"
    /\ pc' = IF NeedsHygiene(treatment_plan) THEN "hygiene" ELSE "coord"
    /\ UNCHANGED <<patient_data, assign_awaits_completion, director, tasks, exam_task,
                   exam_results, treatment_plan, hygiene_task, coordination_task,
                   specialist_tasks, care_task, ret, stdout, care_vars>>

\* await asyncio.gather(*tasks) returns; the result mapping is built and returned
GatherReturn ==
    /\ pc = "gather"
    /\ GatherDone(GatherList)
    /\ ret' = [kind |-> "WorkflowResult", value |-> WorkflowResult]
    /\ pc' = "returned"
    /\ UNCHANGED <<patient_data, assign_awaits_completion, director, tasks, exam_task,
                   exam_results, treatment_plan, hygiene_task, coordination_task,
                   specialist_tasks, care_task, stdout, care_vars>>

\* gather raises the first exception of its awaitables
GatherRaise ==
    /\ pc = "gather"
    /\ GatherFails(GatherList)
    /\ \E i \in Range(GatherList) :
          /\ tasks[i].status = "failed"
          /\ Raise(tasks[i].error)
    /\ UNCHANGED <<patient_data, assign_awaits_completion, director, tasks, exam_task,
                   exam_results, treatment_plan, hygiene_task, coordination_task,
                   specialist_tasks, care_task, care_vars>>

\* main: if results: ... else: ...
MainReport ==
    /\ pc = "returned"
    /\ ret.kind # "raised"
    /\ stdout' = IF ret.kind = "WorkflowResult"
                 THEN stdout \o <<[text |-> "Dental care workflow completed successfully",
                                   detail |-> ""],
                                  [text |-> "Results:", detail |-> "results"]>>
                 ELSE Append(stdout, [text |-> "Dental care workflow encountered an error",
                                      detail |-> ""])
    /\ pc' = "exit"
    /\ UNCHANGED <<patient_data, assign_awaits_completion, director, tasks, exam_task,
                   exam_results, treatment_plan, hygiene_task, coordination_task,
                   specialist_tasks, care_task, ret, care_vars>>

Next ==
    \/ Dispatch
    \/ AssignReturn
    \/ AssignRaise
    \/ CompleteReturn
    \/ CompleteRaise
    \/ CreatePlan
    \/ CheckHygiene
    \/ GatherReturn
    \/ GatherRaise
    \/ MainReport
    \/ \E i \in DOMAIN tasks : WorkerComplete(i)
    \/ \E i \in DOMAIN tasks : WorkerFail(i)

Spec == Init /\ [][Next]_vars

-----------------------------------------------------------------------------
(* src/PatientCenteredCare.py                                              *)
(*                                                                         *)
(* The outcome of a call is [ok |-> TRUE, val |-> v] when it returns v and *)
(* [ok |-> FALSE, exc |-> e] when it raises e.                             *)

Ok(v) == [ok |-> TRUE, val |-> v]
Err(e) == [ok |-> FALSE, exc |-> e]

\* the methods class PatientCenteredCare defines
PatientCenteredCareMethods ==
    {"__init__", "create_care_plan", "_design_treatment_plan",
     "_arrange_support_services", "_evaluate_research_options",
     "get_patient_feedback", "adjust_care_plan"}

\* self.<name>(...): looking up a name the class does not define raises
\* AttributeError
SelfCall(name) ==
    IF name \in PatientCenteredCareMethods
    THEN Ok([returned_by |-> name])
    ELSE Err([type |-> "AttributeError", msg |-> name])

\* a dict display {keys[1]: outs[1], ...}: the values are evaluated in order
\* and the first one that raises ends the evaluation
DictDisplay(keys, outs) ==
    IF \E i \in DOMAIN outs : ~outs[i].ok
    THEN outs[CHOOSE i \in DOMAIN outs :
                 /\ ~outs[i].ok
                 /\ \A j \in 1..(i - 1) : outs[j].ok]
    ELSE Ok([k \in Range(keys) |->
                outs[CHOOSE i \in DOMAIN keys : keys[i] = k].val])

design_treatment_plan(preferences) ==
    DictDisplay(
        <<"primary_treatment", "alternative_options",
          "comfort_measures", "schedule_flexibility">>,
        <<Ok(Get(preferences, "preferred_treatment_approach", NoneVal)),
          SelfCall("_identify_alternatives"),
          Ok(Get(preferences, "comfort_priorities", NoneVal)),
          Ok(Get(preferences, "scheduling_needs", NoneVal))>>)

arrange_support_services(preferences) ==
    DictDisplay(
        <<"emotional_support", "family_support",
          "practical_assistance", "educational_resources">>,
        <<SelfCall("_setup_counseling"),
          SelfCall("_arrange_family_services"),
          SelfCall("_organize_practical_help"),
          SelfCall("_provide_education")>>)

evaluate_research_options(preferences) ==
    IF ~Truthy(Get(preferences, "interested_in_research", FalseVal))
    THEN Ok([participation |-> "None - patient preference"])
    ELSE DictDisplay(
            <<"suitable_studies", "patient_benefits",
              "opt_out_protocol", "communication_plan">>,
            <<SelfCall("_find_matching_studies"),
              SelfCall("_identify_direct_benefits"),
              Ok("Available at any time"),
              SelfCall("_create_communication_plan")>>)

create_care_plan(patient_preferences) ==
    DictDisplay(
        <<"treatment_plan", "support_services", "research_participation">>,
        <<design_treatment_plan(patient_preferences),
          arrange_support_services(patient_preferences),
          evaluate_research_options(patient_preferences)>>)

\* patient_preferences mappings, each key present or absent
PreferenceVals ==
    {OptDict([preferred_treatment_approach |-> a, comfort_priorities |-> c,
              scheduling_needs |-> n, interested_in_research |-> r]) :
        a \in {{}, {"Minimally invasive"}, {"Standard"}, {"Palliative"}},
        c \in {{}, {<<"Pain management", "Home care">>}},
        n \in {{}, {"Afternoon appointments"}},
        r \in {{}, {TrueVal}, {FalseVal}}}

DentalIdle ==
    /\ patient_data = [id |-> "P12345"]
    /\ assign_awaits_completion = FALSE
    /\ director = [agents |-> RegisterTeam]
    /\ pc = "off"
    /\ tasks = <<>>
    /\ exam_task = 0
    /\ exam_results = NoneVal
    /\ treatment_plan = NoneVal
    /\ hygiene_task = 0
    /\ coordination_task = 0
    /\ specialist_tasks = <<>>
    /\ care_task = 0
    /\ ret = [kind |-> "pending"]
    /\ stdout = <<>>

\* the __main__ block is about to run with some patient_preferences
InitCare ==
    /\ DentalIdle
    /\ care_prefs \in PreferenceVals
    /\ care_pc = "main"
    /\ care_outcome = NoneVal

\* care_system = run_patient_centered_care()
RunPatientCenteredCare ==
    /\ care_pc = "main"
    /\ care_pc' = "system"
    /\ UNCHANGED <<dental_vars, care_prefs, care_outcome>>

\* care_plan = care_system.create_care_plan(patient_preferences), then the
\* print; an exception is not caught and ends the script
CreateCarePlan ==
    /\ care_pc = "system"
    /\ care_outcome' = create_care_plan(care_prefs)
    /\ care_pc' = IF care_outcome'.ok THEN "created" ELSE "raised"
    /\ stdout' = IF care_outcome'.ok
                 THEN Append(stdout, [text |-> "Patient-Centered Care Plan Created",
                                      detail |-> ""])
                 ELSE stdout
    /\ UNCHANGED <<patient_data, assign_awaits_completion, director, pc, tasks,
                   exam_task, exam_results, treatment_plan, hygiene_task,
                   coordination_task, specialist_tasks, care_task, ret, care_prefs>>

NextCare == RunPatientCenteredCare \/ CreateCarePlan

SpecCare == InitCare /\ [][NextCare]_vars

-----------------------------------------------------------------------------
(* C8.  For every patient_preferences mapping, create_care_plan completes  *)
(* without error and returns a mapping with exactly the keys               *)
(* treatment_plan, support_services and research_participation, where      *)
(* research_participation is {"participation": "None - patient             *)
(* preference"} whenever interested_in_research is absent or false.        *)
C8_CarePlanReturned ==
    care_pc \in {"created", "raised"} =>
        /\ care_outcome.ok
        /\ DOMAIN care_outcome.val =
              {"treatment_plan", "support_services", "research_participation"}
        /\ ~Truthy(Get(care_prefs, "interested_in_research", FalseVal)) =>
              care_outcome.val.research_participation =
                 [participation |-> "None - patient preference"]

-----------------------------------------------------------------------------
(* Vocabulary of the properties *)

\* indices of the tasks with one of the given names, in dispatch order
TasksNamed(names) ==
    SelectSeq([i \in 1..Len(tasks) |-> i], LAMBDA i : tasks[i].name \in names)

BranchNames ==
    {"Treatment Coordination", "Specialist Consultation", "Patient Care Management"}

HygienePcs == {"hygiene", "hygiene_assign"}

Returned == pc \in {"returned", "exit"}

PlanMade == treatment_plan # NoneVal

\* create_treatment_plan was called on a None examination result and raised
PlanCreationFailed ==
    /\ Returned
    /\ exam_task # 0
    /\ tasks[exam_task].status = "completed"
    /\ tasks[exam_task].results = NoneVal

BranchFailed ==
    \E i \in DOMAIN tasks : tasks[i].name \in BranchNames /\ tasks[i].status = "failed"

ErrorPrinted ==
    \E k \in DOMAIN stdout : stdout[k].text = "Error in dental care workflow"

-----------------------------------------------------------------------------
(* C1.  Whenever create_treatment_plan is about to be invoked or has       *)
(* produced a plan, the Examination task has been dispatched to the        *)
(* general dentist, has completed, and exam_task.complete() has returned   *)
(* its result into exam_results.                                           *)
C1_ExamBeforePlan ==
    (pc = "plan" \/ PlanMade) =>
        /\ exam_task \in DOMAIN tasks
        /\ tasks[exam_task].name = "Initial Examination"
        /\ tasks[exam_task].executor = "general_dentist"
        /\ tasks[exam_task].status = "completed"
        /\ exam_results = tasks[exam_task].results

C1_Witness ==
    /\ pc = "hygiene_check"
    /\ PlanMade
    /\ ~assign_awaits_completion
    /\ tasks[exam_task].status = "completed"

-----------------------------------------------------------------------------
-----------------------------------------------------------------------------
(* C3.  The plan's specialist_referrals is the examination result's        *)
(* referral_needs (empty when the key is absent).  The Specialist          *)
(* Consultation tasks dispatched are, in order, one per referral, each     *)
(* with that referral as its parameters and the dental specialist as its   *)
(* executor: a prefix of the list while the loop runs, the whole list once *)
(* it has ended.  The specialist_consultations of the WorkflowResult are   *)
(* those tasks' results, in the same order.                                *)
C3_FanOut ==
    PlanMade =>
        LET refs == treatment_plan.specialist_referrals
            sp == TasksNamed({"Specialist Consultation"})
        IN
        /\ refs = Get(exam_results, "referral_needs", <<>>)
        /\ Len(sp) <= Len(refs)
        /\ \A k \in DOMAIN sp :
              /\ tasks[sp[k]].parameters = refs[k]
              /\ tasks[sp[k]].executor = "dental_specialist"
        /\ (pc \in {"care", "care_assign", "gather"} \/ ret.kind = "WorkflowResult")
              => /\ Len(sp) = Len(refs)
                 /\ specialist_tasks = sp
        /\ ret.kind = "WorkflowResult" =>
              /\ Len(ret.value.specialist_consultations) = Len(refs)
              /\ \A k \in DOMAIN sp :
                    ret.value.specialist_consultations[k] = tasks[sp[k]].results

C3_Witness ==
    /\ ret.kind = "WorkflowResult"
    /\ Len(treatment_plan.specialist_referrals) = 2
    /\ treatment_plan.specialist_referrals[1] # treatment_plan.specialist_referrals[2]
    /\ ret.value.specialist_consultations[1] # ret.value.specialist_consultations[2]

-----------------------------------------------------------------------------
(* C4 as claimed.  When a concurrent branch has failed and the call has    *)
(* returned, the caller has no WorkflowResult and the value it has         *)
(* received carries the failure.                                           *)
C4_ValueCarriesFailure ==
    (Returned /\ BranchFailed) =>
        /\ ret.kind # "WorkflowResult"
        /\ "error" \in DOMAIN ret
        /\ \E i \in DOMAIN tasks :
              /\ tasks[i].name \in BranchNames
              /\ tasks[i].status = "failed"
              /\ ret.error = tasks[i].error

(* C4 as amended.  When a concurrent branch has failed and the call has    *)
(* returned, the caller has received None, which no successful run         *)
(* returns and which says nothing of the failure; the failure is reported  *)
(* only by the error line printed, which names a failed branch.            *)
C4_FailureGivesNone ==
    (Returned /\ BranchFailed) =>
        /\ ret = [kind |-> "None"]
        /\ \E k \in DOMAIN stdout, i \in DOMAIN tasks :
              /\ tasks[i].name \in BranchNames
              /\ tasks[i].status = "failed"
              /\ stdout[k] = ErrorLine(tasks[i].error)

C4_Witness ==
    /\ pc = "exit"
    /\ ret = [kind |-> "None"]
    /\ care_task = 0
    /\ ~assign_awaits_completion
    /\ \E i \in DOMAIN tasks :
          tasks[i].name = "Specialist Consultation" /\ tasks[i].status = "failed"

-----------------------------------------------------------------------------
(* C5.  A WorkflowResult is returned only when Coordination,               *)
(* PatientCareManagement and every SpecialistConsultation dispatched have  *)
(* completed; it has exactly the five keys and every status in it is the   *)
(* result of a completed task.                                             *)
C5_Barrier ==
    ret.kind = "WorkflowResult" =>
        /\ DOMAIN ret.value =
              {"examination", "treatment_plan", "coordination_status",
               "specialist_consultations", "patient_care_status"}
        /\ \A i \in DOMAIN tasks :
              tasks[i].name \in BranchNames =>
                 /\ tasks[i].status = "completed"
                 /\ i \in Range(GatherList)
        /\ ret.value.coordination_status = tasks[coordination_task].results
        /\ ret.value.patient_care_status = tasks[care_task].results
        /\ ret.value.coordination_status \in TaskResultVals
        /\ ret.value.patient_care_status \in TaskResultVals
        /\ \A k \in DOMAIN ret.value.specialist_consultations :
              ret.value.specialist_consultations[k] \in TaskResultVals

C5_Witness ==
    /\ ret.kind = "WorkflowResult"
    /\ ~assign_awaits_completion
    /\ Len(specialist_tasks) >= 2

-----------------------------------------------------------------------------
(* C6.  When the plan's preventive_care has no truthy immediate_cleaning,  *)
(* no Dental Hygiene task exists and the driver is not in the hygiene      *)
(* step; and the step that tests the flag goes on to Coordination without  *)
(* dispatching, returning or printing anything.                            *)
C6_FlagUnset ==
    PlanMade /\ ~Truthy(Get(treatment_plan.preventive_care, "immediate_cleaning", NoneVal))

C6_NoHygieneTask ==
    C6_FlagUnset =>
        /\ TasksNamed({"Dental Hygiene"}) = <<>>
        /\ hygiene_task = 0
        /\ pc \notin HygienePcs

C6_CheckGoesOn ==
    (pc = "hygiene_check" /\ C6_FlagUnset) =>
        /\ pc' = "coord"
        /\ tasks' = tasks
        /\ ret' = ret
        /\ stdout' = stdout

C6_SkipHygiene == []C6_NoHygieneTask /\ [][C6_CheckGoesOn]_vars

C6_Witness ==
    /\ C6_FlagUnset
    /\ pc = "coord_assign"
    /\ tasks[Len(tasks)].name = "Treatment Coordination"
    /\ Len(tasks) = 2

-----------------------------------------------------------------------------
(* C7.  No exception leaves run_dental_care_workflow: the call returns     *)
(* None or a WorkflowResult; None is returned with the error line printed, *)
(* exactly when a task has failed or plan creation has raised; a           *)
(* WorkflowResult is returned only when the examination, the plan and      *)
(* every task dispatched have succeeded.                                   *)
C7_ExceptionsCaught ==
    /\ ret.kind # "raised"
    /\ Returned => ret.kind \in {"None", "WorkflowResult"}
    /\ ret.kind = "None" =>
          /\ ErrorPrinted
          /\ (\E i \in DOMAIN tasks : tasks[i].status = "failed") \/ PlanCreationFailed
    /\ ret.kind = "WorkflowResult" =>
          /\ exam_results # NoneVal
          /\ PlanMade
          /\ \A i \in DOMAIN tasks : tasks[i].status = "completed"
          /\ ~ErrorPrinted

C7_Witness ==
    /\ pc = "exit"
    /\ ret.kind = "None"
    /\ ErrorPrinted
    /\ care_task # 0
    /\ tasks[coordination_task].status = "failed"

-----------------------------------------------------------------------------
(* C9.  Every task dispatched requires only capabilities its worker has,   *)
(* goes to the worker its helper names, and that worker is registered with *)
(* the director; the same holds of the task schedule_hygiene_care builds.  *)
ExecutorFor(name) ==
    CASE name = "Initial Examination" -> "general_dentist"
      [] name = "Dental Hygiene" -> "dental_hygienist"
      [] name = "Treatment Coordination" -> "treatment_coordinator"
      [] name = "Specialist Consultation" -> "dental_specialist"
      [] name = "Patient Care Management" -> "patient_care_coordinator"

CapabilitiesCovered(t) ==
    /\ t.executor = ExecutorFor(t.name)
    /\ t.executor \in DOMAIN Team
    /\ t.required_expertise \subseteq Team[t.executor].expertise
    /\ Team[t.executor].name \in director.agents

C9_Capabilities ==
    /\ \A i \in DOMAIN tasks : CapabilitiesCovered(tasks[i])
    /\ CapabilitiesCovered(schedule_hygiene_care(patient_data["id"], "comprehensive_cleaning"))
    /\ Cardinality(director.agents) = 5

C9_Witness ==
    \A name \in BranchNames \cup {"Initial Examination"} :
        \E i \in DOMAIN tasks : tasks[i].name = name

-----------------------------------------------------------------------------
(* C10.  In every run the plan's preventive_care has exactly the keys      *)
(* cleaning_frequency, x_rays and fluoride, the driver never enters the    *)
(* hygiene step and no Dental Hygiene task is ever dispatched.             *)
C10_HygieneUnreachable ==
    /\ \A i \in DOMAIN tasks : tasks[i].name # "Dental Hygiene"
    /\ pc \notin HygienePcs
    /\ hygiene_task = 0
    /\ PlanMade =>
          DOMAIN treatment_plan.preventive_care = {"cleaning_frequency", "x_rays", "fluoride"}

C10_Witness ==
    /\ pc = "exit"
    /\ ret.kind = "WorkflowResult"
    /\ patient_data = [id |-> "P1"]
    /\ "restorative_needs" \in DOMAIN exam_results
    /\ Len(tasks) = 3

====
